---- MODULE Spec2Model ----
(***************************************************************************)
(* A model of the PLSCarousel component (src/unnamed/part_000): the slide  *)
(* index and transition lock, the two transition strategies, the autoplay  *)
(* interval, the touch/mouse gesture handlers and destroy().               *)
(*                                                                         *)
(* The methods of the class are operators on a record `s` holding the      *)
(* fields of the instance, the DOM state it writes, and the timers it has  *)
(* scheduled; each event handler is one action that applies the methods    *)
(* the handler calls, in the order the handler calls them.                 *)
(***************************************************************************)
EXTENDS Integers, Sequences, FiniteSets, TLC

\* ------------------------------------------------------------------ bounds
\* The largest number of slides of a carousel.
MaxSlides == 3
\* How far outside 0..slideCount-1 the indices passed to goToSlide from outside go.
TargetSlack == 1

\* The longest text of the data-autoplay-delay attribute.
MaxAttrLen == 2

\* ------------------------------------------------------- program constants
MinSwipeDistance == 50

\* Positions (clientX, clientY) a touch or the pointer is pressed at, and moved to.
PressPoints == {<<0, 0>>, <<60, 0>>}
MovePoints == PressPoints \cup {<<60, 70>>}

Keys == {"ArrowLeft", "ArrowRight", " ", "Enter"}

VARIABLES
    slideCount,       \* this.slides.length, fixed by setupCarousel
    options,          \* this.options
    currentSlide,     \* this.currentSlide
    isPlaying,        \* this.isPlaying
    autoplayTimer,    \* this.autoplayTimer: 0 for null, else an interval id
    isTransitioning,  \* this.isTransitioning
    active,           \* the slides whose classList holds 'active'
    dotActive,        \* the dots whose classList holds 'active'
    playPauseIcon,    \* icon of this.playPauseBtn: "none" (no button), "pause", "play"
    transform,        \* carouselInner.style.transform: <<>> before any write, <<i>> for translateX(-i * 100%)
    timeouts,         \* the pending setTimeout callbacks, in firing order
    intervals,        \* the ids of the live setInterval timers
    lastEvent,        \* the last CustomEvent dispatched on the container
    eventParity,      \* the number of CustomEvents dispatched so far, modulo 2
    thrown,           \* an uncaught TypeError has been raised by some handler
    lastCall,         \* history: what the last goToSlide call did: "busy" or "same" (returned at
                      \* its guard), "started" (a transition), "placed" (setSlide)
    startX, startY, endX, endY, isDragging, isMouseDown,   \* closure of bindSwipeEvents
    hovering,         \* the pointer is inside the container
    hidden,           \* document.hidden
    destroyed,        \* destroy() has been called
    run               \* scenario driver of SpecCycle: next() calls issued, indices settled on

confVars == <<slideCount, options>>
objVars == <<currentSlide, isPlaying, autoplayTimer, isTransitioning, active, dotActive,
             playPauseIcon, transform, timeouts, intervals, lastEvent, eventParity,
             thrown, lastCall>>
gestureVars == <<startX, startY, endX, endY, isDragging, isMouseDown>>
envVars == <<hovering, hidden, destroyed>>
vars == <<confVars, objVars, gestureVars, envVars, run>>

\* ---------------------------------------------------------------- options
\* The defaults of the constructor.
DefaultOptions ==
    [autoplay |-> TRUE, autoplayDelay |-> 5000, loop |-> TRUE, showDots |-> TRUE,
     showArrows |-> TRUE, swipe |-> TRUE, fadeEffect |-> FALSE, pauseOnHover |-> TRUE]

\* { ...defaults, ...options }: the record the constructor builds from the options
\* passed to it.
AllOptions ==
    [autoplay : BOOLEAN, autoplayDelay : {5000}, loop : BOOLEAN, showDots : BOOLEAN,
     showArrows : BOOLEAN, swipe : BOOLEAN, fadeEffect : BOOLEAN, pauseOnHover : BOOLEAN]

Overridden(o) == {k \in DOMAIN o : o[k] # DefaultOptions[k]}

\* The carousels of the model: the defaults, and the defaults with one option
\* overridden.
OptionSets == {o \in AllOptions : Cardinality(Overridden(o)) <= 1}

\* The keys the constructor knows.
OptionKeys == DOMAIN DefaultOptions

\* The `options` argument of the constructor: the keys it gives and their values
\* (value[k] is read only for the keys given).
PassedOptions ==
    {p \in [given : SUBSET OptionKeys,
            value : [autoplay : BOOLEAN, autoplayDelay : {5000, 3000}, loop : BOOLEAN,
                     showDots : BOOLEAN, showArrows : BOOLEAN, swipe : BOOLEAN,
                     fadeEffect : BOOLEAN, pauseOnHover : BOOLEAN]] :
        \A k \in OptionKeys \ p.given : p.value[k] = DefaultOptions[k]}

\* The spread in the other order: { ...options, ...defaults }.
MergeOptionsDefaultsWin(p) ==
    [k \in OptionKeys |-> DefaultOptions[k]]

\* this.options = { ...defaults, ...options }
MergeOptions(p) ==
    [k \in OptionKeys |-> IF k \in p.given THEN p.value[k] ELSE DefaultOptions[k]]

Abs(x) == IF x < 0 THEN -x ELSE x

NoEvent == [type |-> "none", from |-> 0, to |-> 0]

\* ------------------------------------------------------------ the instance
\* The instance as a record: what the methods read and write.
This ==
    [slideCount |-> slideCount, options |-> options,
     currentSlide |-> currentSlide, isPlaying |-> isPlaying,
     autoplayTimer |-> autoplayTimer, isTransitioning |-> isTransitioning,
     active |-> active, dotActive |-> dotActive, playPauseIcon |-> playPauseIcon,
     transform |-> transform, timeouts |-> timeouts, intervals |-> intervals,
     lastEvent |-> lastEvent, eventParity |-> eventParity,
     threw |-> FALSE, lastCall |-> lastCall]

\* this.dots is set by createDots, which createControls calls for more than one slide.
HasDots(s) == s.slideCount > 1 /\ s.options.showDots
HasArrows(s) == s.slideCount > 1 /\ s.options.showArrows
HasPlayPauseBtn(s) == s.slideCount > 1 /\ s.options.autoplay

\* carousel.dispatchEvent(new CustomEvent(type, {detail}))
dispatchEvent(s, type, from, to) ==
    [s EXCEPT !.lastEvent = [type |-> type, from |-> from, to |-> to],
              !.eventParity = (s.eventParity + 1) % 2]

\* updateSlideState(index)
updateSlideState(s, index) ==
    LET s1 == [s EXCEPT !.active = {index},
                        !.dotActive = IF HasDots(s) THEN {index} ELSE s.dotActive,
                        !.currentSlide = index,
                        !.isTransitioning = FALSE]
    IN  dispatchEvent(s1, "slideChanged", index, index)

\* setSlide(index)
setSlide(s, index) ==
    [s EXCEPT !.active = {index},
              !.dotActive = IF HasDots(s) THEN {index} ELSE s.dotActive,
              !.currentSlide = index,
              !.transform = IF s.options.fadeEffect THEN s.transform ELSE <<index>>,
              !.isTransitioning = FALSE]

\* fadeToSlide(index): slides[index] is undefined on an empty carousel, and reading
\* its style raises a TypeError before anything is written or scheduled.
fadeToSlide(s, index) ==
    IF index \notin 0..(s.slideCount - 1)
    THEN [s EXCEPT !.threw = TRUE]
    ELSE [s EXCEPT !.active = s.active \cup {index},
                   !.timeouts = Append(s.timeouts,
                                       [kind |-> "fade", from |-> s.currentSlide, index |-> index])]

\* slideToSlide that writes the offset of the current slide, not of the target.
slideToSlideStale(s, index) ==
    IF s.slideCount = 0
    THEN [s EXCEPT !.threw = TRUE]
    ELSE [s EXCEPT !.transform = <<s.currentSlide>>,
                   !.timeouts = Append(s.timeouts,
                                       [kind |-> "slide", from |-> s.currentSlide, index |-> index])]

\* slideToSlide(index): carouselInner is undefined on an empty carousel (setupCarousel
\* returned before creating it), and reading its style raises a TypeError.
slideToSlide(s, index) ==
    IF s.slideCount = 0
    THEN [s EXCEPT !.threw = TRUE]
    ELSE [s EXCEPT !.transform = <<index>>,
                   !.timeouts = Append(s.timeouts,
                                       [kind |-> "slide", from |-> s.currentSlide, index |-> index])]

\* ResolveIndex with the upper clamp off by one (slideCount for slideCount - 1).
ResolveIndexOffByOne(s, index) ==
    IF index >= s.slideCount
    THEN (IF s.options.loop THEN 0 ELSE s.slideCount)
    ELSE IF index < 0
         THEN (IF s.options.loop THEN s.slideCount - 1 ELSE 0)
         ELSE index

\* ResolveIndex with the loop option read the wrong way round.
ResolveIndexLoopInverted(s, index) ==
    IF index >= s.slideCount
    THEN (IF ~s.options.loop THEN 0 ELSE s.slideCount - 1)
    ELSE IF index < 0
         THEN (IF ~s.options.loop THEN s.slideCount - 1 ELSE 0)
         ELSE index

\* The boundary policy of goToSlide.
ResolveIndex(s, index) ==
    IF index >= s.slideCount
    THEN (IF s.options.loop THEN 0 ELSE s.slideCount - 1)
    ELSE IF index < 0
         THEN (IF s.options.loop THEN s.slideCount - 1 ELSE 0)
         ELSE index

\* The guard without its isTransitioning test.
DroppedSameOnly(s, index) == index = s.currentSlide

\* The guard without its same-index test.
DroppedBusyOnly(s, index) == s.isTransitioning

\* The guard at the head of goToSlide.
Dropped(s, index) == s.isTransitioning \/ index = s.currentSlide

\* goToSlide that writes currentSlide when the transition is requested.
goToSlideEager(s, index, animate) ==
    LET s0 == [s EXCEPT !.lastCall = IF s.isTransitioning THEN "busy"
                                     ELSE IF index = s.currentSlide THEN "same"
                                     ELSE IF animate THEN "started"
                                     ELSE "placed"]
        to == ResolveIndex(s, index)
    IN  IF Dropped(s, index) THEN s0
        ELSE IF ~animate THEN setSlide(s0, to)
        ELSE LET s1 == [s0 EXCEPT !.isTransitioning = TRUE, !.currentSlide = to]
                 s2 == dispatchEvent(s1, "slideChange", s.currentSlide, to)
             IN  IF s.options.fadeEffect THEN fadeToSlide(s2, to) ELSE slideToSlide(s2, to)

\* goToSlide(index, animate)
goToSlide(s, index, animate) ==
    LET s0 == [s EXCEPT !.lastCall = IF s.isTransitioning THEN "busy"
                                     ELSE IF index = s.currentSlide THEN "same"
                                     ELSE IF animate THEN "started"
                                     ELSE "placed"]
        to == ResolveIndex(s, index)
    IN  IF Dropped(s, index) THEN s0
        ELSE IF ~animate THEN setSlide(s0, to)
        ELSE LET s1 == [s0 EXCEPT !.isTransitioning = TRUE]
                 s2 == dispatchEvent(s1, "slideChange", s.currentSlide, to)
             IN  IF s.options.fadeEffect THEN fadeToSlide(s2, to) ELSE slideToSlide(s2, to)

\* nextSlide that asks for the slide after the next.
nextSlideSkips(s) == goToSlide(s, s.currentSlide + 2, TRUE)

\* nextSlide()
nextSlide(s) == goToSlide(s, s.currentSlide + 1, TRUE)

prevSlide(s) == goToSlide(s, s.currentSlide - 1, TRUE)

\* pauseAutoplay that leaves the play/pause button as it is.
pauseAutoplayKeepsIcon(s) ==
    [s EXCEPT !.intervals = IF s.autoplayTimer # 0 THEN s.intervals \ {s.autoplayTimer}
                            ELSE s.intervals,
              !.autoplayTimer = 0]

\* pauseAutoplay that also gives up the intent to play.
pauseAutoplayStops(s) ==
    [s EXCEPT !.intervals = IF s.autoplayTimer # 0 THEN s.intervals \ {s.autoplayTimer}
                            ELSE s.intervals,
              !.autoplayTimer = 0,
              !.isPlaying = FALSE,
              !.playPauseIcon = IF HasPlayPauseBtn(s) THEN "play" ELSE s.playPauseIcon]

\* pauseAutoplay()
pauseAutoplay(s) ==
    [s EXCEPT !.intervals = IF s.autoplayTimer # 0 THEN s.intervals \ {s.autoplayTimer}
                            ELSE s.intervals,
              !.autoplayTimer = 0,
              !.playPauseIcon = IF HasPlayPauseBtn(s) THEN "play" ELSE s.playPauseIcon]

\* setInterval returns an id no live timer has.
FreshId(s) == CHOOSE i \in 1..(Cardinality(s.intervals) + 1) : i \notin s.intervals

\* startAutoplay without its guard on the autoplay option and the slide count.
startAutoplayUnguarded(s) ==
    LET s1 == pauseAutoplay(s)
        id == FreshId(s1)
    IN  [s1 EXCEPT !.intervals = s1.intervals \cup {id},
                   !.autoplayTimer = id,
                   !.isPlaying = TRUE,
                   !.playPauseIcon = IF HasPlayPauseBtn(s) THEN "pause" ELSE s1.playPauseIcon]

\* startAutoplay without the pauseAutoplay() that cancels the timer already armed.
startAutoplayNoCancel(s) ==
    IF ~s.options.autoplay \/ s.slideCount <= 1 THEN s
    ELSE LET id == FreshId(s)
         IN  [s EXCEPT !.intervals = s.intervals \cup {id},
                       !.autoplayTimer = id,
                       !.isPlaying = TRUE,
                       !.playPauseIcon = IF HasPlayPauseBtn(s) THEN "pause" ELSE s.playPauseIcon]

\* startAutoplay()
startAutoplay(s) ==
    IF ~s.options.autoplay \/ s.slideCount <= 1 THEN s
    ELSE LET s1 == pauseAutoplay(s)
             id == FreshId(s1)
         IN  [s1 EXCEPT !.intervals = s1.intervals \cup {id},
                        !.autoplayTimer = id,
                        !.isPlaying = TRUE,
                        !.playPauseIcon = IF HasPlayPauseBtn(s) THEN "pause" ELSE s1.playPauseIcon]

\* toggleAutoplay whose pausing branch keeps isPlaying.
toggleAutoplayKeepsIntent(s) ==
    IF s.isPlaying THEN pauseAutoplay(s)
    ELSE startAutoplay([s EXCEPT !.isPlaying = TRUE])

\* toggleAutoplay()
toggleAutoplay(s) ==
    IF s.isPlaying
    THEN pauseAutoplay([s EXCEPT !.isPlaying = FALSE])
    ELSE startAutoplay([s EXCEPT !.isPlaying = TRUE])

\* destroy(): pauses autoplay, removes the generated controls and the markers of the
\* slides. The listeners it names were never registered (the registered ones are
\* arrow functions), so removeEventListener detaches nothing.
destroy(s) ==
    [pauseAutoplay(s) EXCEPT !.active = {}]

\* A completion callback that also restarts autoplay.
transitionEndRestarts(s, t) ==
    LET s1 == IF t.kind = "fade" THEN [s EXCEPT !.active = s.active \ {t.from}] ELSE s
    IN  startAutoplay(updateSlideState(s1, t.index))

\* The callback of the setTimeout of fadeToSlide / slideToSlide.
transitionEnd(s, t) ==
    LET s1 == IF t.kind = "fade" THEN [s EXCEPT !.active = s.active \ {t.from}] ELSE s
    IN  updateSlideState(s1, t.index)

\* ------------------------------------------------------------ construction
\* The fields as the constructor sets them, and the controls createControls makes.
\* The panels of the host container carry none of the component's markers: the
\* constructor adds 'carousel-slide' to each and writes 'active' nowhere.
Fresh(n, opts) ==
    [slideCount |-> n, options |-> opts,
     currentSlide |-> 0, isPlaying |-> opts.autoplay,
     autoplayTimer |-> 0, isTransitioning |-> FALSE,
     active |-> {}, dotActive |-> {},
     playPauseIcon |-> IF n > 1 /\ opts.autoplay THEN "pause" ELSE "none",
     transform |-> <<>>, timeouts |-> <<>>, intervals |-> {},
     lastEvent |-> NoEvent, eventParity |-> 0,
     threw |-> FALSE, lastCall |-> "none"]

\* init(): after setupCarousel, createControls and bindEvents.
Constructed(n, opts) ==
    LET s1 == IF opts.autoplay THEN startAutoplay(Fresh(n, opts)) ELSE Fresh(n, opts)
    IN  goToSlide(s1, 0, FALSE)

\* The instance fields of the state equal those of s.
Holds(s) ==
    /\ slideCount = s.slideCount
    /\ options = s.options
    /\ currentSlide = s.currentSlide
    /\ isPlaying = s.isPlaying
    /\ autoplayTimer = s.autoplayTimer
    /\ isTransitioning = s.isTransitioning
    /\ active = s.active
    /\ dotActive = s.dotActive
    /\ playPauseIcon = s.playPauseIcon
    /\ transform = s.transform
    /\ timeouts = s.timeouts
    /\ intervals = s.intervals
    /\ lastEvent = s.lastEvent
    /\ eventParity = s.eventParity
    /\ thrown = s.threw
    /\ lastCall = s.lastCall

\* The handler leaves the instance as s.
Becomes(s) ==
    /\ UNCHANGED confVars
    /\ currentSlide' = s.currentSlide
    /\ isPlaying' = s.isPlaying
    /\ autoplayTimer' = s.autoplayTimer
    /\ isTransitioning' = s.isTransitioning
    /\ active' = s.active
    /\ dotActive' = s.dotActive
    /\ playPauseIcon' = s.playPauseIcon
    /\ transform' = s.transform
    /\ timeouts' = s.timeouts
    /\ intervals' = s.intervals
    /\ lastEvent' = s.lastEvent
    /\ eventParity' = s.eventParity
    /\ thrown' = (thrown \/ s.threw)
    /\ lastCall' = s.lastCall

NoRun == [calls |-> 0, visited |-> <<>>]

Init ==
    /\ \E n \in 0..MaxSlides, opts \in OptionSets : Holds(Constructed(n, opts))
    /\ startX = 0 /\ startY = 0 /\ endX = 0 /\ endY = 0
    /\ isDragging = FALSE /\ isMouseDown = FALSE
    /\ hovering = FALSE /\ hidden = FALSE /\ destroyed = FALSE
    /\ run = NoRun

\* ---------------------------------------------------------------- handlers
\* click on the generated prev arrow
ArrowPrevClick ==
    /\ HasArrows(This) /\ ~destroyed
    /\ Becomes(prevSlide(This))
    /\ UNCHANGED <<gestureVars, envVars, run>>

\* click on the generated next arrow
ArrowNextClick ==
    /\ HasArrows(This) /\ ~destroyed
    /\ Becomes(nextSlide(This))
    /\ UNCHANGED <<gestureVars, envVars, run>>

\* click on dot i
DotClick(i) ==
    /\ HasDots(This) /\ ~destroyed
    /\ Becomes(goToSlide(This, i, TRUE))
    /\ UNCHANGED <<gestureVars, envVars, run>>

\* click on the play/pause button
PlayPauseClick ==
    /\ HasPlayPauseBtn(This) /\ ~destroyed
    /\ Becomes(toggleAutoplay(This))
    /\ UNCHANGED <<gestureVars, envVars, run>>

\* The keydown listener with the two arrow keys exchanged.
keyDownArrowsSwapped(s, key) ==
    CASE key = "ArrowLeft" -> nextSlide(s)
      [] key = "ArrowRight" -> prevSlide(s)
      [] key = " " -> toggleAutoplay(s)
      [] OTHER -> s

\* The keydown listener.
keyDown(s, key) ==
    CASE key = "ArrowLeft" -> prevSlide(s)
      [] key = "ArrowRight" -> nextSlide(s)
      [] key = " " -> toggleAutoplay(s)
      [] OTHER -> s

KeyDown(key) ==
    /\ Becomes(keyDown(This, key))
    /\ UNCHANGED <<gestureVars, envVars, run>>

\* The pointer enters the container: the mouseenter listener is bound with pauseOnHover.
MouseEnter ==
    /\ ~hovering
    /\ hovering' = TRUE
    /\ Becomes(IF options.pauseOnHover THEN pauseAutoplay(This) ELSE This)
    /\ UNCHANGED <<gestureVars, hidden, destroyed, run>>

\* MouseLeave that does not restart autoplay.
MouseLeaveNoResume ==
    /\ hovering
    /\ hovering' = FALSE
    /\ Becomes(This)
    /\ isMouseDown' = (IF options.swipe THEN FALSE ELSE isMouseDown)
    /\ UNCHANGED <<startX, startY, endX, endY, isDragging, hidden, destroyed, run>>

\* MouseLeave that restarts autoplay without looking at isPlaying.
MouseLeaveAlwaysStarts ==
    /\ hovering
    /\ hovering' = FALSE
    /\ Becomes(IF options.pauseOnHover THEN startAutoplay(This) ELSE This)
    /\ isMouseDown' = (IF options.swipe THEN FALSE ELSE isMouseDown)
    /\ UNCHANGED <<startX, startY, endX, endY, isDragging, hidden, destroyed, run>>

\* The pointer leaves the container: the mouseleave listener of bindEvents (with
\* pauseOnHover) and the one of bindSwipeEvents (with swipe).
MouseLeave ==
    /\ hovering
    /\ hovering' = FALSE
    /\ Becomes(IF options.pauseOnHover /\ isPlaying THEN startAutoplay(This) ELSE This)
    /\ isMouseDown' = (IF options.swipe THEN FALSE ELSE isMouseDown)
    /\ UNCHANGED <<startX, startY, endX, endY, isDragging, hidden, destroyed, run>>

\* visibilitychange on the document
VisibilityChange ==
    /\ hidden' = ~hidden
    /\ Becomes(IF hidden' THEN pauseAutoplay(This)
               ELSE IF isPlaying THEN startAutoplay(This) ELSE This)
    /\ UNCHANGED <<gestureVars, hovering, destroyed, run>>

\* touchstart at point p
TouchStart(p) ==
    /\ options.swipe
    /\ startX' = p[1] /\ startY' = p[2] /\ isDragging' = TRUE
    /\ Becomes(pauseAutoplay(This))
    /\ UNCHANGED <<endX, endY, isMouseDown, envVars, run>>

\* touchmove to point p
TouchMove(p) ==
    /\ options.swipe
    /\ isDragging
    /\ endX' = p[1] /\ endY' = p[2]
    /\ UNCHANGED <<confVars, objVars, startX, startY, isDragging, isMouseDown, envVars, run>>

\* The decision of handleTouchEnd.
TouchCommits(deltaX, deltaY) ==
    Abs(deltaX) > Abs(deltaY) /\ Abs(deltaX) > MinSwipeDistance

\* The decision of the mouseup listener.
MouseCommits(deltaX) == Abs(deltaX) > MinSwipeDistance

\* swipeTo with the two directions exchanged.
swipeToInverted(s, deltaX) == IF deltaX > 0 THEN nextSlide(s) ELSE prevSlide(s)

\* A committed gesture: prevSlide for a drag to the right, else nextSlide.
swipeTo(s, deltaX) == IF deltaX > 0 THEN prevSlide(s) ELSE nextSlide(s)

\* handleTouchEnd that restarts autoplay only when the release committed nothing.
handleTouchEndResumeIfIdle(s, deltaX, deltaY) ==
    IF TouchCommits(deltaX, deltaY) THEN swipeTo(s, deltaX)
    ELSE IF s.isPlaying THEN startAutoplay(s) ELSE s

\* handleTouchEnd after its isDragging guard; an exception of the navigation ends it.
handleTouchEnd(s, deltaX, deltaY) ==
    LET s1 == IF TouchCommits(deltaX, deltaY) THEN swipeTo(s, deltaX) ELSE s
    IN  IF s1.threw THEN s1
        ELSE IF s1.isPlaying THEN startAutoplay(s1) ELSE s1

\* touchend
TouchEnd ==
    /\ options.swipe
    /\ isDragging
    /\ isDragging' = FALSE
    /\ Becomes(handleTouchEnd(This, endX - startX, endY - startY))
    /\ UNCHANGED <<startX, startY, endX, endY, isMouseDown, envVars, run>>

\* mousedown at point p
MouseDown(p) ==
    /\ options.swipe /\ hovering
    /\ startX' = p[1] /\ startY' = p[2] /\ isMouseDown' = TRUE
    /\ UNCHANGED <<confVars, objVars, endX, endY, isDragging, envVars, run>>

\* mousemove to point p
MouseMove(p) ==
    /\ options.swipe /\ hovering
    /\ isMouseDown
    /\ endX' = p[1] /\ endY' = p[2]
    /\ UNCHANGED <<confVars, objVars, startX, startY, isDragging, isMouseDown, envVars, run>>

\* The mouseup listener after its isMouseDown guard.
handleMouseUp(s, deltaX) == IF MouseCommits(deltaX) THEN swipeTo(s, deltaX) ELSE s

\* mouseup
MouseUp ==
    /\ options.swipe /\ hovering
    /\ isMouseDown
    /\ isMouseDown' = FALSE
    /\ Becomes(handleMouseUp(This, endX - startX))
    /\ UNCHANGED <<startX, startY, endX, endY, isDragging, envVars, run>>

\* A live interval fires.
AutoplayTick ==
    /\ intervals # {}
    /\ Becomes(nextSlide(This))
    /\ UNCHANGED <<gestureVars, envVars, run>>

\* The oldest pending timeout fires (all have the same delay).
TimeoutFires ==
    /\ timeouts # <<>>
    /\ Becomes(transitionEnd([This EXCEPT !.timeouts = Tail(timeouts)], Head(timeouts)))
    /\ UNCHANGED <<gestureVars, envVars>>

TransitionEnd == TimeoutFires /\ UNCHANGED run

\* ------------------------------------------------------------- public calls
CallNextSlide ==
    /\ Becomes(nextSlide(This))
    /\ UNCHANGED <<gestureVars, envVars, run>>

CallPrevSlide ==
    /\ Becomes(prevSlide(This))
    /\ UNCHANGED <<gestureVars, envVars, run>>

CallGoToSlide(t) ==
    /\ Becomes(goToSlide(This, t, TRUE))
    /\ UNCHANGED <<gestureVars, envVars, run>>

CallToggleAutoplay ==
    /\ Becomes(toggleAutoplay(This))
    /\ UNCHANGED <<gestureVars, envVars, run>>

CallDestroy ==
    /\ destroyed' = TRUE
    /\ Becomes(destroy(This))
    /\ UNCHANGED <<gestureVars, hovering, hidden, run>>

\* The indices goToSlide is called with from outside.
Targets == (0 - TargetSlack)..(slideCount - 1 + TargetSlack)

Next ==
    \/ ArrowPrevClick
    \/ ArrowNextClick
    \/ \E i \in 0..(slideCount - 1) : DotClick(i)
    \/ PlayPauseClick
    \/ \E key \in Keys : KeyDown(key)
    \/ MouseEnter
    \/ MouseLeave
    \/ VisibilityChange
    \/ \E p \in PressPoints : TouchStart(p)
    \/ \E p \in MovePoints : TouchMove(p)
    \/ TouchEnd
    \/ \E p \in PressPoints : MouseDown(p)
    \/ \E p \in MovePoints : MouseMove(p)
    \/ MouseUp
    \/ AutoplayTick
    \/ TransitionEnd
    \/ CallNextSlide
    \/ CallPrevSlide
    \/ \E t \in Targets : CallGoToSlide(t)
    \/ CallToggleAutoplay
    \/ CallDestroy

Spec == Init /\ [][Next]_vars

\* ------------------------------------------------- scenario: a full cycle
\* A looping carousel of more than one slide on which nextSlide() is called
\* slideCount times, each call after the previous transition has settled.
CycleInit ==
    /\ \E n \in 2..MaxSlides, opts \in {o \in AllOptions : o.loop} :
           Holds(Constructed(n, opts))
    /\ startX = 0 /\ startY = 0 /\ endX = 0 /\ endY = 0
    /\ isDragging = FALSE /\ isMouseDown = FALSE
    /\ hovering = FALSE /\ hidden = FALSE /\ destroyed = FALSE
    /\ run = NoRun

CycleNextSlide ==
    /\ ~isTransitioning
    /\ run.calls < slideCount
    /\ Becomes(nextSlide(This))
    /\ run' = [run EXCEPT !.calls = @ + 1]
    /\ UNCHANGED <<gestureVars, envVars>>

CycleSettle ==
    /\ TimeoutFires
    /\ run' = [run EXCEPT !.visited = Append(@, currentSlide')]

CycleNext == CycleNextSlide \/ CycleSettle

SpecCycle == CycleInit /\ [][CycleNext]_vars

\* ------------------------------------------------ scenario: construction
\* new PLSCarousel(element, options) on a container of n panels: run holds the
\* options passed and whether the constructor has run. Until it has, there is no
\* instance, and the variables hold the fields of a carousel of n panels with the
\* default options on which init() has not run.
OptionsInit ==
    /\ \E n \in 0..MaxSlides : Holds(Fresh(n, DefaultOptions))
    /\ startX = 0 /\ startY = 0 /\ endX = 0 /\ endY = 0
    /\ isDragging = FALSE /\ isMouseDown = FALSE
    /\ hovering = FALSE /\ hidden = FALSE /\ destroyed = FALSE
    /\ \E p \in PassedOptions : run = [passed |-> p, built |-> FALSE]

\* The constructor: merges the options, sets the fields and runs init().
Construct ==
    /\ ~run.built
    /\ run' = [run EXCEPT !.built = TRUE]
    /\ LET s == Constructed(slideCount, MergeOptions(run.passed))
       IN  /\ options' = s.options
           /\ currentSlide' = s.currentSlide
           /\ isPlaying' = s.isPlaying
           /\ autoplayTimer' = s.autoplayTimer
           /\ isTransitioning' = s.isTransitioning
           /\ active' = s.active
           /\ dotActive' = s.dotActive
           /\ playPauseIcon' = s.playPauseIcon
           /\ transform' = s.transform
           /\ timeouts' = s.timeouts
           /\ intervals' = s.intervals
           /\ lastEvent' = s.lastEvent
           /\ eventParity' = s.eventParity
           /\ thrown' = s.threw
           /\ lastCall' = s.lastCall
    /\ UNCHANGED <<slideCount, gestureVars, envVars>>

OptionsNext == Construct

SpecOptions == OptionsInit /\ [][OptionsNext]_vars

\* ------------------------------------------ scenario: auto-initialisation
\* The characters of the data-autoplay-delay attribute, and its texts.
AttrChars == {"-", "0", "1", "a", " "}
AttrTexts == UNION {[1..k -> AttrChars] : k \in 0..MaxAttrLen}

\* carousel.dataset.autoplayDelay: undefined when the attribute is absent.
Attrs == {[present |-> FALSE, text |-> <<>>]} \cup
         {[present |-> TRUE, text |-> t] : t \in AttrTexts}

DigitChars == <<"0", "1", "2", "3", "4", "5", "6", "7", "8", "9">>
IsDigit(c) == \E d \in 1..10 : DigitChars[d] = c
DigitValue(c) == (CHOOSE d \in 1..10 : DigitChars[d] = c) - 1

RECURSIVE SkipSpaces(_)
SkipSpaces(t) == IF t # <<>> /\ Head(t) = " " THEN SkipSpaces(Tail(t)) ELSE t

\* The longest prefix of t made of digits.
RECURSIVE DigitsPrefix(_)
DigitsPrefix(t) ==
    IF t # <<>> /\ IsDigit(Head(t)) THEN <<Head(t)>> \o DigitsPrefix(Tail(t)) ELSE <<>>

\* The number a sequence of decimal digits denotes.
RECURSIVE Decimal(_)
Decimal(ds) ==
    IF ds = <<>> THEN 0
    ELSE 10 * Decimal(SubSeq(ds, 1, Len(ds) - 1)) + DigitValue(ds[Len(ds)])

NaN == [nan |-> TRUE, value |-> 0]

\* parseInt(x): leading white space is skipped, then an optional sign, then the
\* longest run of digits; NaN when there is none, and for undefined.
parseInt(attr) ==
    IF ~attr.present THEN NaN
    ELSE LET t == SkipSpaces(attr.text)
             negative == t # <<>> /\ Head(t) = "-"
             ds == DigitsPrefix(IF negative THEN Tail(t) ELSE t)
         IN  IF ds = <<>> THEN NaN
             ELSE [nan |-> FALSE, value |-> IF negative THEN 0 - Decimal(ds) ELSE Decimal(ds)]

\* parseInt(carousel.dataset.autoplayDelay) || 5000: NaN and 0 are falsy.
AutoInitDelay(attr) ==
    LET v == parseInt(attr)
    IN  IF v.nan \/ v.value = 0 THEN 5000 ELSE v.value

\* The DOMContentLoaded listener finds a [data-carousel] container of n panels whose
\* only data attribute is data-autoplay-delay; run holds the attribute and whether
\* the listener has run. Until it has, the variables hold the fields of a carousel
\* of n panels with the default options on which init() has not run.
AutoInitInit ==
    /\ \E n \in 0..MaxSlides : Holds(Fresh(n, DefaultOptions))
    /\ startX = 0 /\ startY = 0 /\ endX = 0 /\ endY = 0
    /\ isDragging = FALSE /\ isMouseDown = FALSE
    /\ hovering = FALSE /\ hidden = FALSE /\ destroyed = FALSE
    /\ \E a \in Attrs : run = [attr |-> a, built |-> FALSE]

\* new PLSCarousel(carousel, options) with the options read from the data attributes.
AutoInit ==
    /\ ~run.built
    /\ run' = [run EXCEPT !.built = TRUE]
    /\ LET opts == [DefaultOptions EXCEPT !.autoplayDelay = AutoInitDelay(run.attr)]
           s == Constructed(slideCount, opts)
       IN  /\ options' = s.options
           /\ currentSlide' = s.currentSlide
           /\ isPlaying' = s.isPlaying
           /\ autoplayTimer' = s.autoplayTimer
           /\ isTransitioning' = s.isTransitioning
           /\ active' = s.active
           /\ dotActive' = s.dotActive
           /\ playPauseIcon' = s.playPauseIcon
           /\ transform' = s.transform
           /\ timeouts' = s.timeouts
           /\ intervals' = s.intervals
           /\ lastEvent' = s.lastEvent
           /\ eventParity' = s.eventParity
           /\ thrown' = s.threw
           /\ lastCall' = s.lastCall
    /\ UNCHANGED <<slideCount, gestureVars, envVars>>

AutoInitNext == AutoInit

SpecAutoInit == AutoInitInit /\ [][AutoInitNext]_vars

\* ---------------------------------------------------- scenario: autoplay
\* A looping carousel of several slides built with autoplay and left alone: only
\* the interval and the completion callbacks run. Both are timers of the event
\* loop, which fires every timer that is due: an interval that stays armed fires
\* again and again, and a scheduled completion fires.
AutoplayInit ==
    /\ \E n \in 2..MaxSlides, opts \in {o \in AllOptions : o.loop /\ o.autoplay} :
           Holds(Constructed(n, opts))
    /\ startX = 0 /\ startY = 0 /\ endX = 0 /\ endY = 0
    /\ isDragging = FALSE /\ isMouseDown = FALSE
    /\ hovering = FALSE /\ hidden = FALSE /\ destroyed = FALSE
    /\ run = NoRun

AutoplayNext == AutoplayTick \/ TransitionEnd

SpecAutoplay ==
    AutoplayInit /\ [][AutoplayNext]_vars /\ WF_vars(AutoplayTick) /\ WF_vars(TransitionEnd)

\* ================================================================== claims
LastIndex == slideCount - 1

\* C1: on a carousel with at least one slide, currentSlide is always an index of a
\* slide: 0 <= currentSlide < slideCount, whatever navigation calls, autoplay
\* ticks, gesture releases and transition completions have happened.
C1_IndexInRange ==
    slideCount > 0 => currentSlide \in 0..LastIndex

\* A transition to the last slide of a carousel of several slides has settled.
C1_Witness ==
    /\ slideCount > 1
    /\ currentSlide = LastIndex
    /\ lastEvent = [type |-> "slideChanged", from |-> LastIndex, to |-> LastIndex]
    /\ ~isTransitioning

\* C2: in every settled state of a carousel with at least one slide, the state
\* right after construction included, exactly one slide carries the active
\* marker, and it is the slide at currentSlide.
C2_ExactlyOneActive ==
    (slideCount >= 1 /\ ~isTransitioning) => active = {currentSlide}

\* C3: when the constructor returns (no notification has been dispatched yet), the
\* initial placement has run for index 0: slide 0 is active, dot 0 is highlighted
\* when dots are rendered, currentSlide = 0 and isTransitioning = FALSE.
C3_InitialPlacement ==
    (slideCount >= 1 /\ lastEvent = NoEvent /\ ~destroyed) =>
        /\ currentSlide = 0
        /\ ~isTransitioning
        /\ active = {0}
        /\ (HasDots(This) => dotActive = {0})

\* The handlers that only make a navigation call.
NavigationOnly ==
    \/ ArrowPrevClick
    \/ ArrowNextClick
    \/ \E i \in 0..LastIndex : DotClick(i)
    \/ KeyDown("ArrowLeft")
    \/ KeyDown("ArrowRight")
    \/ MouseUp
    \/ AutoplayTick
    \/ CallNextSlide
    \/ CallPrevSlide
    \/ \E t \in Targets : CallGoToSlide(t)

\* C4: while isTransitioning is true a navigation call, from whatever source, is
\* dropped: currentSlide, isTransitioning, the pending completion, isPlaying and
\* the timer are unchanged and no notification is dispatched. (The touchend
\* handler resumes autoplay itself after its navigation call, so for it the timer
\* is left out.)
C4_DroppedWhileTransitioning ==
    /\ [][isTransitioning =>
             \/ UNCHANGED <<currentSlide, isTransitioning, timeouts, isPlaying, autoplayTimer,
                            intervals, lastEvent, eventParity, active, dotActive, transform>>
             \/ ~NavigationOnly]_vars
    /\ [][isTransitioning =>
             \/ UNCHANGED <<currentSlide, isTransitioning, timeouts, isPlaying,
                            lastEvent, eventParity, active, dotActive, transform>>
             \/ ~TouchEnd]_vars

\* A navigation call has been dropped while the one transition is in flight.
C4_Witness ==
    /\ isTransitioning
    /\ lastCall = "busy"
    /\ Len(timeouts) = 1
    /\ lastEvent.type = "slideChange"

\* C5: the number of pending completion callbacks is at most one, and
\* isTransitioning is true exactly when one is pending.
C5_OneInFlight ==
    /\ Len(timeouts) <= 1
    /\ isTransitioning <=> (Len(timeouts) = 1)

\* C6: the notifications alternate, starting with slideChange: a slideChange
\* {from, to} is dispatched inside an accepted call with from = currentSlide, and
\* the slideChanged that follows carries to and leaves currentSlide = to and
\* isTransitioning = FALSE.
C6_Alternation ==
    [][eventParity' # eventParity =>
         \/ /\ lastEvent'.type = "slideChange"
            /\ lastEvent.type \in {"none", "slideChanged"}
            /\ lastEvent'.from = currentSlide
            /\ currentSlide' = currentSlide
            /\ ~isTransitioning /\ isTransitioning'
         \/ /\ lastEvent'.type = "slideChanged"
            /\ lastEvent.type = "slideChange"
            /\ lastEvent'.to = lastEvent.to
            /\ currentSlide' = lastEvent'.to
            /\ ~isTransitioning']_vars

\* C6, the part a single state shows: a dispatched slideChange {from, to} is
\* followed by exactly one slideChanged {to}, so until that one is dispatched
\* exactly one completion callback, for to, is pending.
C6_RequestIsAnswered ==
    lastEvent.type = "slideChange" =>
        /\ Len(timeouts) = 1
        /\ timeouts[1].index = lastEvent.to

\* The target the boundary policy of the specification gives for index t.
ExpectedTarget(t) ==
    IF 0 <= t /\ t < slideCount THEN t
    ELSE IF t >= slideCount THEN (IF options.loop THEN 0 ELSE slideCount - 1)
    ELSE (IF options.loop THEN slideCount - 1 ELSE 0)

\* C7: an accepted goToSlide(t) on a carousel with at least one slide announces
\* the target the boundary policy gives for t, and that target becomes
\* currentSlide when the transition settles.
C7_BoundaryPolicy ==
    [][slideCount >= 1 =>
         /\ \A t \in Targets :
              (~isTransitioning /\ t # currentSlide /\ CallGoToSlide(t)) =>
                  /\ lastEvent' = [type |-> "slideChange", from |-> currentSlide,
                                   to |-> ExpectedTarget(t)]
                  /\ isTransitioning'
                  /\ Len(timeouts') = 1
         /\ (Len(timeouts') < Len(timeouts) /\ TransitionEnd) =>
              /\ lastEvent.type = "slideChange"
              /\ currentSlide' = lastEvent.to
              /\ lastEvent' = [type |-> "slideChanged", from |-> lastEvent.to,
                               to |-> lastEvent.to]]_vars

\* An index past the end has been clamped on a carousel that does not loop, and
\* the transition it started has settled on the last slide.
C7_Witness ==
    /\ slideCount >= 2 /\ ~options.loop
    /\ lastEvent = [type |-> "slideChange", from |-> LastIndex, to |-> LastIndex]
    /\ lastCall = "started"
    /\ currentSlide = LastIndex

\* C8: on a looping carousel of more than one slide, nextSlide() called slideCount
\* times from index 0, each call after the previous transition has settled,
\* visits 1, 2, ..., slideCount - 1 once each and ends on index 0.
C8_FullCycle ==
    ~isTransitioning =>
        /\ currentSlide = run.calls % slideCount
        /\ run.visited = [i \in 1..run.calls |-> i % slideCount]

\* The slideCount-th call has settled.
C8_Witness ==
    /\ slideCount = MaxSlides
    /\ run.calls = slideCount
    /\ Len(run.visited) = slideCount
    /\ ~isTransitioning

\* The handlers that call nextSlide(), and those that call prevSlide().
NextCalled ==
    ArrowNextClick \/ KeyDown("ArrowRight") \/ AutoplayTick \/ CallNextSlide

PrevCalled ==
    ArrowPrevClick \/ KeyDown("ArrowLeft") \/ CallPrevSlide

\* The completion callbacks scheduled by the step.
Scheduled == {timeouts'[i] : i \in (Len(timeouts) + 1)..Len(timeouts')}

\* C9: without loop, nextSlide() at the last index leaves currentSlide at
\* slideCount - 1 and prevSlide() at index 0 leaves it at 0, after the call and
\* after the completion of whatever the call started.
C9_StaysAtBoundary ==
    [][(~options.loop /\ slideCount >= 1) =>
         /\ (currentSlide = LastIndex /\ NextCalled) =>
                /\ currentSlide' = LastIndex
                /\ \A t \in Scheduled : t.from = LastIndex /\ t.index = LastIndex
         /\ (currentSlide = 0 /\ PrevCalled) =>
                /\ currentSlide' = 0
                /\ \A t \in Scheduled : t.from = 0 /\ t.index = 0
         /\ (Len(timeouts') < Len(timeouts) /\ Head(timeouts).from = Head(timeouts).index
               /\ TransitionEnd) =>
                currentSlide' = currentSlide]_vars

\* Without loop, a call at the last index of a carousel of several slides has
\* been made and what it started is pending.
C9_Witness ==
    /\ slideCount >= 2 /\ ~options.loop
    /\ currentSlide = LastIndex
    /\ timeouts # <<>>
    /\ Head(timeouts).from = LastIndex /\ Head(timeouts).index = LastIndex

\* C10: goToSlide(currentSlide) is a no-op: no transition begins, no completion
\* is scheduled, currentSlide and the autoplay state are unchanged and no
\* notification is dispatched.
C10_SameIndexNoOp ==
    [][\/ UNCHANGED <<currentSlide, isTransitioning, timeouts, isPlaying, autoplayTimer,
                       intervals, lastEvent, eventParity, active, dotActive, transform,
                       playPauseIcon>>
       \/ ~(CallGoToSlide(currentSlide) \/ DotClick(currentSlide))]_vars

\* goToSlide(currentSlide) has been called on a settled carousel that has
\* navigated before.
C10_Witness ==
    /\ lastCall = "same"
    /\ ~isTransitioning
    /\ lastEvent.type = "slideChanged"
    /\ slideCount >= 2

\* ---------------------------------------------------------------- autoplay
\* A recurring autoplay timer is armed.
Armed == intervals # {}

\* C11: every transition that begins settles, for any slideCount: while
\* isTransitioning is true the completion callback that clears it is scheduled
\* and can fire, so there is no state from which the flag stays true forever.
C11_CompletionScheduled ==
    isTransitioning => ENABLED TransitionEnd

\* C12: an armed autoplay timer implies that the autoplay option is enabled and
\* that the carousel has more than one slide.
C12_ArmedOnlyIfEnabled ==
    (Armed \/ autoplayTimer # 0) => (options.autoplay /\ slideCount > 1)

\* toggleAutoplay() has called startAutoplay() on a carousel of several slides whose
\* autoplay option is disabled (isPlaying starts FALSE there), and no timer is armed.
C12_Witness ==
    /\ ~options.autoplay /\ slideCount > 1
    /\ isPlaying
    /\ ~Armed

\* C13: at most one recurring timer is live, and it is the one this.autoplayTimer
\* holds, however the releases of the suspension sources overlap.
C13_AtMostOneTimer ==
    /\ Cardinality(intervals) <= 1
    /\ intervals = (IF autoplayTimer = 0 THEN {} ELSE {autoplayTimer})

\* The timer is armed while the pointer is inside and a touch is in progress: the
\* release of a third source (the page becoming visible, or a toggle) armed it,
\* and the releases still to come will call startAutoplay() on an armed timer.
C13_Witness ==
    /\ Armed
    /\ hovering /\ options.pauseOnHover
    /\ isDragging
    /\ ~hidden

\* The steps whose handler calls pauseAutoplay() and nothing else: the pointer
\* entering with pauseOnHover, a touch press, and the page becoming hidden.
PauseOnly ==
    \/ ~hovering /\ hovering' /\ options.pauseOnHover /\ MouseEnter
    \/ isDragging' /\ \E p \in PressPoints : TouchStart(p)
    \/ ~hidden /\ hidden' /\ VisibilityChange

\* C14: pauseAutoplay() cancels the timer if one is armed and leaves isPlaying,
\* currentSlide and isTransitioning (and the scheduled completions) as they were;
\* pausing what is already paused changes nothing.
C14_PauseFrame ==
    [][PauseOnly =>
          /\ autoplayTimer' = 0
          /\ intervals' = intervals \ {autoplayTimer}
          /\ UNCHANGED <<isPlaying, currentSlide, isTransitioning, timeouts>>
          /\ pauseAutoplay(pauseAutoplay(This)) = pauseAutoplay(This)
          /\ (autoplayTimer = 0 /\ playPauseIcon # "pause" => UNCHANGED objVars)]_vars

\* Two suspension sources have paused a playing carousel one after the other: the
\* second pauseAutoplay() found the timer already cancelled, and isPlaying still holds.
C14_Witness ==
    /\ options.autoplay /\ slideCount > 1
    /\ hovering /\ options.pauseOnHover
    /\ hidden
    /\ isPlaying
    /\ ~Armed

\* The steps that run toggleAutoplay(): the play/pause button, the space key and
\* the method itself.
ToggleStep == PlayPauseClick \/ KeyDown(" ") \/ CallToggleAutoplay

\* C15: toggleAutoplay() on a playing carousel sets isPlaying to false and leaves
\* the timer unarmed; otherwise it sets isPlaying to true and the timer is armed
\* exactly when autoplay is enabled and there are several slides. Two toggles in a
\* row restore isPlaying.
C15_Toggle ==
    [][UNCHANGED <<currentSlide, timeouts, gestureVars, envVars>> /\ ToggleStep =>
          /\ isPlaying => ~isPlaying' /\ autoplayTimer' = 0 /\ ~Armed'
          /\ ~isPlaying => /\ isPlaying'
                           /\ Armed' = (options.autoplay /\ slideCount > 1)
                           /\ (autoplayTimer' # 0) = Armed'
          /\ toggleAutoplay(toggleAutoplay(This)).isPlaying = isPlaying]_vars

\* Only toggleAutoplay() clears isPlaying on a carousel built with autoplay: it has
\* paused, and the timer is unarmed.
C15_Witness ==
    /\ options.autoplay /\ slideCount > 1
    /\ ~isPlaying
    /\ autoplayTimer = 0 /\ ~Armed

\* C16: an armed timer implies isPlaying; when the pointer leaves a carousel that
\* toggleAutoplay() paused the timer stays unarmed, and when it leaves a playing
\* carousel (autoplay enabled, several slides, pauseOnHover) the timer is armed again.
C16_IntentGatesResume ==
    /\ Armed => isPlaying
    /\ [][/\ Armed' => isPlaying'
          /\ (hovering /\ ~hovering' /\ MouseLeave) =>
                /\ ~isPlaying => ~Armed' /\ ~isPlaying'
                /\ (isPlaying /\ options.autoplay /\ slideCount > 1
                     /\ options.pauseOnHover) => Armed' /\ isPlaying']_vars

\* The pointer is inside a carousel (autoplay enabled, several slides, pauseOnHover)
\* that toggleAutoplay() paused: the mouseleave to come finds isPlaying false.
C16_Witness ==
    /\ options.autoplay /\ slideCount > 1 /\ options.pauseOnHover
    /\ hovering
    /\ ~isPlaying
    /\ ~Armed

\* C17: while the pointer is inside (pauseOnHover), the page is hidden or a touch
\* is in progress, the autoplay timer is not armed, whatever else has happened.
C17_SuspendedWhileSourceActive ==
    ((hovering /\ options.pauseOnHover) \/ hidden \/ isDragging) => ~Armed

\* ---------------------------------------------------------------- gestures
\* A touch press or a mouse press.
PressStep ==
    \/ isDragging' /\ \E p \in PressPoints : TouchStart(p)
    \/ isMouseDown' /\ \E p \in PressPoints : MouseDown(p)

\* C18: right after a press, by touch or by mouse, the autoplay timer is not armed
\* and isPlaying is what it was.
C18_PressSuspends ==
    [][PressStep => ~Armed' /\ autoplayTimer' = 0 /\ isPlaying' = isPlaying]_vars

\* The rule of the gesture recognizer: the horizontal displacement dominates the
\* vertical one and exceeds the threshold.
Committed(deltaX, deltaY) ==
    Abs(deltaX) > Abs(deltaY) /\ Abs(deltaX) > MinSwipeDistance

\* A release: the touchend or the mouseup of a sequence in progress.
TouchRelease == isDragging /\ ~isDragging' /\ TouchEnd
MouseRelease == isMouseDown /\ ~isMouseDown' /\ MouseUp

\* C19: a release, by touch or by mouse, requests a navigation exactly when the
\* displacement from the press point to the last point is mostly horizontal and
\* longer than 50 (stated for a carousel of several slides, where a navigation
\* never throws): a release whose displacement fails the rule leaves the
\* carousel as it was.
C19_ReleaseRule ==
    [][(slideCount > 1 /\ (TouchRelease \/ MouseRelease)) =>
          (Committed(endX - startX, endY - startY)
              \/ UNCHANGED <<currentSlide, isTransitioning, timeouts, eventParity,
                             lastEvent, lastCall, thrown, active, transform>>)]_vars

\* C20: a committed release on a settled carousel with slides calls prevSlide()
\* for a positive horizontal displacement and nextSlide() for a negative one, once:
\* one slideChange from the current slide to the slide that call resolves, and one
\* completion scheduled; touch and mouse alike.
C20_Direction ==
    [][(/\ slideCount >= 1 /\ ~isTransitioning
        /\ Committed(endX - startX, endY - startY)
        /\ (TouchRelease \/ MouseRelease)) =>
          /\ lastEvent' = [type |-> "slideChange", from |-> currentSlide,
                           to |-> ExpectedTarget(IF endX - startX > 0
                                                 THEN currentSlide - 1
                                                 ELSE currentSlide + 1)]
          /\ eventParity' # eventParity
          /\ Len(timeouts') = Len(timeouts) + 1
          /\ isTransitioning']_vars

\* A drag of 60 to the right has been released on a carousel of several slides and
\* the transition it started is in flight towards the previous slide.
C20_Witness ==
    /\ slideCount > 1
    /\ ~isDragging /\ ~isMouseDown
    /\ endX - startX = 60 /\ endY = startY
    /\ lastCall = "started"
    /\ isTransitioning
    /\ lastEvent.type = "slideChange"
    /\ lastEvent.to = ExpectedTarget(lastEvent.from - 1)
    /\ lastEvent.to # ExpectedTarget(lastEvent.from + 1)

\* ---------------------------------------------------------------- disposal
\* C21: after destroy() the autoplay timer is unarmed and stays unarmed, whatever
\* events follow, so no autoplay tick calls nextSlide() after disposal.
C21_DisposedStaysUnarmed ==
    destroyed => (~Armed /\ autoplayTimer = 0)

\* An event of the container or of the document reaches a listener of bindEvents
\* or bindSwipeEvents.
ListenerStep ==
    \/ \E key \in Keys : KeyDown(key)
    \/ MouseEnter
    \/ MouseLeave
    \/ VisibilityChange
    \/ \E p \in PressPoints : TouchStart(p)
    \/ TouchEnd
    \/ MouseUp

\* C22: after destroy(), keyboard, hover, visibility, touch and mouse events change
\* neither currentSlide, isTransitioning, isPlaying nor the timer, and dispatch no
\* event (stated for a carousel of several slides).
C22_DisposedIgnoresEvents ==
    [][(destroyed /\ slideCount > 1 /\ ListenerStep) =>
          UNCHANGED <<currentSlide, isTransitioning, isPlaying, autoplayTimer,
                      intervals, lastEvent, eventParity>>]_vars

\* C23: a transition completion that fires after destroy() marks no slide active,
\* writes no state and dispatches no slideChanged (stated for a carousel of
\* several slides).
C23_DisposedCompletionIsNoOp ==
    [][(destroyed /\ slideCount > 1 /\ Len(timeouts') < Len(timeouts) /\ TransitionEnd) =>
          UNCHANGED <<active, dotActive, currentSlide, lastEvent, eventParity>>]_vars

\* -------------------------------------------------------- degenerate sizes
\* C24: a carousel built on a container without panels is inert: whatever is
\* called or pressed, currentSlide stays 0, isTransitioning stays false, nothing
\* is thrown, no event is dispatched and no timer is armed.
C24_EmptyIsInert ==
    slideCount = 0 =>
        /\ currentSlide = 0
        /\ ~isTransitioning
        /\ ~thrown
        /\ lastEvent = NoEvent /\ eventParity = 0
        /\ ~Armed

\* C25: a carousel of exactly one slide has no arrows, dots or play/pause button,
\* never arms the autoplay timer, and nextSlide() and prevSlide() do nothing on it:
\* no transition begins and no event is dispatched.
C25_SingleSlideIsInert ==
    slideCount = 1 =>
        /\ ~HasArrows(This) /\ ~HasDots(This) /\ ~HasPlayPauseBtn(This)
        /\ playPauseIcon = "none"
        /\ ~Armed
        /\ ~isTransitioning /\ timeouts = <<>>
        /\ lastEvent = NoEvent /\ eventParity = 0

\* ------------------------------------------------------------ construction
\* C26: the constructor called without options yields autoplay = true,
\* autoplayDelay = 5000, loop = true, showDots = true, showArrows = true,
\* swipe = true, fadeEffect = false, pauseOnHover = true; an option passed
\* replaces the value of its own key and of no other; and isPlaying starts as the
\* resulting autoplay option.
C26_DefaultsAndOverrides ==
    run.built =>
        /\ run.passed.given = {} =>
               options = [autoplay |-> TRUE, autoplayDelay |-> 5000, loop |-> TRUE,
                          showDots |-> TRUE, showArrows |-> TRUE, swipe |-> TRUE,
                          fadeEffect |-> FALSE, pauseOnHover |-> TRUE]
        /\ DOMAIN options = OptionKeys
        /\ \A k \in run.passed.given : options[k] = run.passed.value[k]
        /\ \A k \in OptionKeys \ run.passed.given :
               options[k] = [autoplay |-> TRUE, autoplayDelay |-> 5000, loop |-> TRUE,
                             showDots |-> TRUE, showArrows |-> TRUE, swipe |-> TRUE,
                             fadeEffect |-> FALSE, pauseOnHover |-> TRUE][k]
        /\ isPlaying = options.autoplay

\* The constructor has run with { autoplay: false, autoplayDelay: 3000 }: those two
\* keys hold the values passed, the others the defaults, and isPlaying is false.
C26_Witness ==
    /\ run.built
    /\ run.passed.given = {"autoplay", "autoplayDelay"}
    /\ options = [autoplay |-> FALSE, autoplayDelay |-> 3000, loop |-> TRUE,
                  showDots |-> TRUE, showArrows |-> TRUE, swipe |-> TRUE,
                  fadeEffect |-> FALSE, pauseOnHover |-> TRUE]
    /\ ~isPlaying

\* -------------------------------------------------------------- transitions
\* A transition is in flight: slideChange {from, to} was its announcement.
InFlight == isTransitioning /\ lastEvent.type = "slideChange"

C28_FadeMarkers ==
    (options.fadeEffect /\ slideCount > 1 /\ ~destroyed) =>
        /\ (InFlight /\ lastEvent.from # lastEvent.to) =>
               active = {lastEvent.from, lastEvent.to}
        /\ (~isTransitioning /\ lastEvent.type = "slideChanged") =>
               active = {lastEvent.to}

\* The offset of the track in units of -100%: none is written before the first
\* slideToSlide, which is the offset of slide 0.
Offset == IF transform = <<>> THEN 0 ELSE transform[1]

\* C29: without fadeEffect the offset of the track is that of currentSlide in
\* every settled state and that of the target during a transition; with
\* fadeEffect the transform of the track is never written (stated for a carousel
\* with slides: without slides there is no track).
C29_StrategiesExclusive ==
    slideCount >= 1 =>
        IF options.fadeEffect THEN transform = <<>>
        ELSE IF isTransitioning THEN InFlight /\ Offset = lastEvent.to
        ELSE Offset = currentSlide

\* A displacement transition to another slide is in flight and the track has the
\* offset of the target.
C29_Witness ==
    /\ ~options.fadeEffect /\ slideCount > 1
    /\ InFlight
    /\ lastEvent.to # currentSlide
    /\ transform = <<lastEvent.to>>

\* C30: after the release of a touch sequence the timer is armed exactly when
\* isPlaying holds (and autoplay is enabled and there are several slides),
\* whether or not the release committed a navigation and whether or not that
\* navigation was dropped; isPlaying is left as it was.
C30_ResumeAfterRelease ==
    [][TouchRelease =>
          /\ Armed' = (isPlaying /\ options.autoplay /\ slideCount > 1)
          /\ (autoplayTimer' # 0) = Armed'
          /\ isPlaying' = isPlaying]_vars

\* A committed touch release was dropped by the transition lock, and the timer is
\* armed although the pointer is inside: the release armed it.
C30_Witness ==
    /\ ~isDragging
    /\ endX - startX = 60 /\ endY = startY
    /\ lastCall = "busy"
    /\ isTransitioning
    /\ Armed /\ isPlaying
    /\ hovering /\ options.pauseOnHover /\ ~hidden

\* C31: a press (touch or mouse) that arrives while a gesture sequence is in
\* progress is ignored: it leaves the recorded start coordinates as they were.
C31_SecondPressIgnored ==
    [][((isDragging \/ isMouseDown) /\ PressStep) => UNCHANGED <<startX, startY>>]_vars

\* ---------------------------------------------------------------- keyboard
\* r is the instance after one call of goToSlide(t) on a carousel with slides:
\* the call was dropped during a transition, and otherwise dispatched one
\* slideChange to the index t resolves to and scheduled one completion.
CalledOnce(r, t) ==
    /\ IF isTransitioning
       THEN /\ r.isTransitioning /\ r.timeouts = timeouts
            /\ r.lastEvent = lastEvent /\ r.eventParity = eventParity
       ELSE /\ r.isTransitioning /\ Len(r.timeouts) = Len(timeouts) + 1
            /\ r.lastEvent = [type |-> "slideChange", from |-> currentSlide,
                              to |-> ExpectedTarget(t)]
            /\ r.eventParity # eventParity
    /\ r.currentSlide = currentSlide
    /\ r.isPlaying = isPlaying /\ r.autoplayTimer = autoplayTimer
    /\ r.intervals = intervals

\* C32: on the carousel, ArrowLeft calls prevSlide(), ArrowRight calls
\* nextSlide() and the space key calls toggleAutoplay(), each once per key press;
\* any other key changes nothing. Stated of what the keydown listener makes of
\* every reachable state of a carousel with slides.
C32_KeyBindings ==
    slideCount >= 1 =>
        /\ CalledOnce(keyDown(This, "ArrowLeft"), currentSlide - 1)
        /\ CalledOnce(keyDown(This, "ArrowRight"), currentSlide + 1)
        /\ LET r == keyDown(This, " ")
           IN  /\ r.isPlaying = ~isPlaying
               /\ (r.intervals # {}) = (r.isPlaying /\ options.autoplay /\ slideCount > 1)
               /\ r.currentSlide = currentSlide /\ r.isTransitioning = isTransitioning
               /\ r.timeouts = timeouts
               /\ r.lastEvent = lastEvent /\ r.eventParity = eventParity
        /\ \A key \in Keys \ {"ArrowLeft", "ArrowRight", " "} : keyDown(This, key) = This

\* On a carousel of three slides built without autoplay (so without play/pause
\* button), a transition to the last slide is in flight from slide 0 (ArrowLeft
\* wraps there) and isPlaying has been switched on (the space key).
C32_Witness ==
    /\ slideCount = 3 /\ ~options.autoplay
    /\ InFlight
    /\ lastEvent.from = 0 /\ lastEvent.to = 2
    /\ isPlaying

\* ---------------------------------------------------------------- progress
\* C33: on a looping carousel of several slides whose autoplay timer stays armed,
\* under fair firing of the interval and of the completion callbacks, every slide
\* index is the settled currentSlide infinitely often, and currentSlide only
\* ever moves to the next index.
C33_AutoplayProgress ==
    /\ \A i \in 0..(MaxSlides - 1) :
           []<>(i < slideCount => (currentSlide = i /\ ~isTransitioning))
    /\ [][/\ Armed'
          /\ currentSlide' # currentSlide =>
                currentSlide' = (currentSlide + 1) % slideCount]_vars

\* Autoplay has gone round a carousel of more than two slides: the transition
\* from the last slide back to slide 0 has settled.
C33_Witness ==
    /\ slideCount > 2
    /\ Armed
    /\ ~isTransitioning
    /\ currentSlide = 0
    /\ lastEvent = [type |-> "slideChanged", from |-> 0, to |-> 0]

\* ------------------------------------------------------------------- delay
\* C34: whatever the data-autoplay-delay attribute holds (absent, not a number,
\* zero, negative or positive), the delay the autoplay timer is armed with is a
\* positive number.
C34_DelayPositive ==
    (run.built /\ Armed) => options.autoplayDelay > 0

\* C35: every slideChange announces a real change: its from and to differ,
\* whatever the loop option and whoever asked (stated for a carousel of several
\* slides).
C35_AnnouncesRealChange ==
    (slideCount > 1 /\ lastEvent.type = "slideChange") => lastEvent.from # lastEvent.to

\* C36: a press followed by a release without a move in between never navigates,
\* by touch or by mouse, wherever the press is and whatever gestures came before:
\* right after a press, the displacement the release would evaluate does not
\* commit.
C36_TapNeverNavigates ==
    [][/\ (isDragging' /\ (\E p \in PressPoints : TouchStart(p))) =>
             ~TouchCommits(endX' - startX', endY' - startY')
       /\ (isMouseDown' /\ (\E p \in PressPoints : MouseDown(p))) =>
             ~MouseCommits(endX' - startX')]_vars

\* No suspension source is active: the pointer is outside or pauseOnHover is off,
\* the page is visible and no touch sequence is in progress.
NoSuspension ==
    /\ ~hovering \/ ~options.pauseOnHover
    /\ ~hidden
    /\ ~isDragging

\* C37: on a carousel of several slides built with autoplay and not destroyed,
\* whenever no suspension source is active the timer is armed exactly when
\* isPlaying holds.
C37_ArmedIffPlaying ==
    (NoSuspension /\ ~destroyed /\ options.autoplay /\ slideCount > 1) =>
        (Armed <=> isPlaying)

\* A gesture that moved to (60, 70) has ended without navigating (a suspension
\* that has been released); no source is active now and autoplay is armed again.
C37_Witness ==
    /\ NoSuspension /\ ~destroyed /\ options.autoplay /\ slideCount > 1
    /\ options.pauseOnHover /\ ~hovering
    /\ endX = 60 /\ endY = 70 /\ startX = 0 /\ ~isMouseDown
    /\ lastCall = "same"
    /\ isPlaying /\ Armed

\* C38: while the play/pause button exists it shows the pause icon exactly when
\* the autoplay timer is armed, and the play icon exactly when it is not.
C38_IconFollowsTimer ==
    (HasPlayPauseBtn(This) /\ ~destroyed) =>
        /\ playPauseIcon \in {"pause", "play"}
        /\ (playPauseIcon = "pause") <=> Armed

\* Autoplay is suspended by the pointer on a playing carousel: the button shows
\* the play icon although isPlaying holds.
C38_Witness ==
    /\ HasPlayPauseBtn(This) /\ ~destroyed
    /\ hovering /\ options.pauseOnHover
    /\ isPlaying /\ ~Armed
    /\ playPauseIcon = "play"

\* What nextSlide(), prevSlide(), goToSlide(t) and the pending completion
\* callback make of the state.
AfterNavigation ==
    {nextSlide(This), prevSlide(This)}
        \cup {goToSlide(This, t, TRUE) : t \in Targets}
        \cup (IF timeouts = <<>> THEN {}
              ELSE {transitionEnd([This EXCEPT !.timeouts = Tail(timeouts)], Head(timeouts))})

\* C39: nextSlide(), prevSlide(), goToSlide(t) and the transition completions
\* leave autoplay as it is: isPlaying, the timer and the play/pause button are the
\* same after as before, in every reachable state.
C39_NavigationKeepsAutoplay ==
    \A r \in AfterNavigation :
        /\ r.isPlaying = isPlaying
        /\ r.autoplayTimer = autoplayTimer
        /\ r.intervals = intervals
        /\ r.playPauseIcon = playPauseIcon

\* A transition has settled while autoplay was suspended by the pointer, and
\* autoplay is still suspended and still meant to play.
C39_Witness ==
    /\ options.autoplay /\ slideCount > 1
    /\ hovering /\ options.pauseOnHover /\ ~hidden /\ ~isDragging
    /\ isPlaying /\ ~Armed
    /\ lastEvent.type = "slideChanged"
    /\ ~isTransitioning

====
